---- MODULE Spec2Model ----
(***************************************************************************)
(* Tetragram codecs, conversions, validator and compile pipeline          *)
(* (tetragram_commands.rs), gas estimator (commands/gas_estimate.rs) and   *)
(* runtime binary invocation (runtime_binary.rs) of the TrinaryVM command  *)
(* line.                                                                   *)
(*                                                                         *)
(* The state of the codecs is the content of the .sm file a conversion     *)
(* writes or reads, the argument of the last encoding call, the glyph      *)
(* string of the last decoding call and its result.  Characters are        *)
(* modelled by their code points, byte sequences by sequences of 0..255,   *)
(* a Result by a record with st = "Ok" or st = "Err".                      *)
(***************************************************************************)
EXTENDS Integers, Sequences, FiniteSets, TLC

VARIABLES input, sm, origin, stream, out, last

\* The gas estimator: the bytecode of the behaviour, what the cost functions
\* of the runtime return (table, intr), the compression flag and the result
\* of the last estimate_contract call and the result of the last
\* calculate_compression_savings call; the gas limits from which the runtime
\* recommends its second and its third tier (tiers) and the last
\* recommend_tier call with its result (rec).
VARIABLES bytecode, table, intr, flag, est, sav, tiers, rec

\* The runtime binary (runtime_binary.rs): what running each candidate with
\* --version gives (probe), what running the located binary with the
\* arguments of the caller gives (run), and the last invoke_runtime call.
VARIABLES probe, run, rt

\* The validator: the result of the last validate_tetragram_file call.
\* The converter: the last convert_tetragram_file call (cnv), the file a
\* decoding conversion writes (outfile) and the .tritvm file (tritvm).
VARIABLES verdict, cnv, outfile, tritvm

\* compile_pipeline: the runs of the pipeline, each with its arguments, its
\* position and its result (pipe), the output file of each run (outs) and
\* whether the translator of the runtime gives a non-empty string
\* (translates).  The intermediate file of the runs is tritvm.
VARIABLES pipe, outs, translates

\* Invocations of the codecs and of the estimator that run interleaved:
\* each with its function, its argument, its position, its local
\* variables and its result.
VARIABLES inv

codecVars == <<input, sm, origin, stream, out, last>>

concVars == <<inv>>

pipeVars == <<pipe, outs, translates>>

convVars == <<verdict, cnv, outfile, tritvm>>

rtVars == <<probe, run, rt>>

gasVars == <<bytecode, table, intr, flag, est, sav, tiers, rec>>

\* what the codec operations leave alone
beyondCodec == <<gasVars, rtVars, convVars, pipeVars, concVars>>

\* what the estimator operations leave alone
beyondGas ==
    <<input, sm, origin, stream, out, rtVars, convVars, pipeVars, concVars>>

vars == <<codecVars, gasVars, rtVars, convVars, pipeVars, concVars>>

(***************************************************************************)
(* Bounds of the model.                                                    *)
(***************************************************************************)
\* longest byte sequence handed to the universal encoder
MaxBytes == 2
\* longest hand-written glyph stream handed to the universal decoder
MaxSyms == 3
\* longest stream the universal decoder is re-run on after appending zeros
MaxPadded == 11
\* longest text (in characters) handed to the direct encoder
MaxText == 2
\* longest hand-written glyph stream handed to the direct decoder
MaxTrits == 4

\* longest bytecode handed to the gas estimator
MaxCode == 3

\* longest number text handed to a number -> sm conversion
MaxNumText == 3

\* byte values the universal encoder is fed with
ByteVals == {0, 1, 2, 80, 81, 127, 128, 255}

(***************************************************************************)
(* Program constants.                                                      *)
(***************************************************************************)
GLYPH_BASE == 119558

TETRAGRAM_BASE == 119558

\* code points handed to the universal decoder: whitespace, a letter, the
\* two neighbours of the alphabet and members of the alphabet
UniversalChars ==
    {32, 65, GLYPH_BASE - 1, GLYPH_BASE, GLYPH_BASE + 1, GLYPH_BASE + 27,
     GLYPH_BASE + 80, GLYPH_BASE + 81}

\* code points of the files handed to the validator: a control character,
\* whitespace, a whitespace control character, a letter, the neighbours of
\* the alphabet and members of the alphabet
ValidateChars ==
    {1, 32, 133, 65, GLYPH_BASE - 1, GLYPH_BASE, GLYPH_BASE + 80,
     GLYPH_BASE + 81}

\* code points of the number texts: + - 0 1 9 a
NumberChars == {43, 45, 48, 49, 57, 97}

\* the format names given to convert
Formats == {"number", "text", "sm", "tritvm", "Text"}

\* the .tritvm file of a behaviour: missing, empty or with two bytes
TritvmFiles ==
    {[exists |-> FALSE, data |-> <<>>], [exists |-> TRUE, data |-> <<>>],
     [exists |-> TRUE, data |-> <<81, 1>>]}

\* the path of the .sm file and the path of the .tritvm file, as texts
SmPath == <<47, 102, 46, 115, 109>>

TritvmPath == <<47, 116>>

\* extensions of the files handed to the validator; "" for no extension
Extensions == {"", "sm", "txt"}

\* code points of the characters of the texts handed to the direct encoder
TextChars == {0, 1, 4, 40, 65, 80, 81, 97, 233}

\* code points handed to the direct decoder: a letter and members of the
\* three ranges of the alphabet
DirectChars ==
    {65, TETRAGRAM_BASE, TETRAGRAM_BASE + 27, TETRAGRAM_BASE + 54,
     TETRAGRAM_BASE + 80}

\* byte values of the bytecode handed to the gas estimator
CodeBytes == {0, 1, 2}

\* what the runtime may hold for one byte: no opcode, an opcode with a base
\* cost, or a homomorphic opcode with a base cost and a cost at the default
\* data size
TableEntries ==
    {[kind |-> "invalid", base |-> 0, he |-> 0],
     [kind |-> "plain", base |-> 1, he |-> 0],
     [kind |-> "plain", base |-> 2, he |-> 0],
     [kind |-> "homomorphic", base |-> 1, he |-> 5]}

\* what the runtime may return as the intrinsic gas of the bytecode
IntrinsicVals == {0, 1, 3, 1500000}

\* the gas limits of test_tier_recommendation
TierPoints == {500000, 1500000, 5000000}

\* what the runtime may have as the least gas limits of Tier6 and of Tier9:
\* the extreme values between the gas limits of test_tier_recommendation
TierSteps ==
    {[tier6 |-> 500001, tier9 |-> 1500001],
     [tier6 |-> 1500000, tier9 |-> 5000000]}

RECURSIVE SeqsUpTo(_, _)
SeqsUpTo(S, n) ==
    IF n = 0 THEN {<<>>}
    ELSE LET shorter == SeqsUpTo(S, n - 1)
         IN  shorter \cup {Append(s, x) : s \in {t \in shorter : Len(t) = n - 1}, x \in S}

(***************************************************************************)
(* Results of a call.                                                      *)
(***************************************************************************)
NoResult == [st |-> "none", val |-> <<>>, err |-> "", ch |-> 0]

Ok(v) == [st |-> "Ok", val |-> v, err |-> "", ch |-> 0]

\* Err(msg): the message text and, where the message formats a character
\* into it, that character
Err(msg, c) == [st |-> "Err", val |-> <<>>, err |-> msg, ch |-> c]

(***************************************************************************)
(* char::is_whitespace: the Unicode White_Space code points.               *)
(***************************************************************************)
is_whitespace(c) ==
    \/ c \in 9..13
    \/ c \in {32, 133, 160, 5760, 8232, 8233, 8239, 8287, 12288}
    \/ c \in 8192..8202

(***************************************************************************)
(* BigUint arithmetic.  A BigUint is a natural number; the sums             *)
(*   sum_i byte_i * 256^i   and   sum_i digit_i * 81^i                      *)
(* of the source are evaluated by Horner's rule, which yields the same      *)
(* number without computing the weight of a position that holds a zero.     *)
(***************************************************************************)
RECURSIVE from_le(_, _)
from_le(ds, base) ==
    IF ds = <<>> THEN 0 ELSE Head(ds) + base * from_le(Tail(ds), base)

\* the digits of value, most significant first
RECURSIVE to_be(_, _)
to_be(value, base) ==
    IF value = 0 THEN <<>>
    ELSE Append(to_be(value \div base, base), value % base)

\* the div_rem loop: digits of value in the given base, least significant
\* first; no digit at all for zero
RECURSIVE to_le(_, _)
to_le(value, base) ==
    IF value = 0 THEN <<>>
    ELSE <<value % base>> \o to_le(value \div base, base)

(***************************************************************************)
(* encode_universal_to_tetragrams: the glyph stream written to the file.   *)
(***************************************************************************)
Reverse(s) == [i \in 1..Len(s) |-> s[Len(s) + 1 - i]]

\* the bytes read as big-endian digits
BytesToBig_be(bytes) == from_le(Reverse(bytes), 256)

BytesToBig(bytes) == from_le(bytes, 256)

\* the digits without the "at least one digit" fix
Base81Digits_noZero(big_number) == to_le(big_number, 81)

Base81Digits(big_number) ==
    LET digits == to_le(big_number, 81)
    IN  IF digits = <<>> THEN <<0>> ELSE digits

\* no alignment padding
PadTo9_none(tetragrams) == tetragrams

RECURSIVE PadTo9(_)
PadTo9(tetragrams) ==
    IF Len(tetragrams) % 9 # 0 THEN PadTo9(Append(tetragrams, GLYPH_BASE))
    ELSE tetragrams

encode_universal_to_tetragrams(bytes) ==
    LET digits == Base81Digits(BytesToBig(bytes))
        tetragrams == [i \in 1..Len(digits) |-> GLYPH_BASE + digits[i]]
    IN  PadTo9(tetragrams)

(***************************************************************************)
(* decode_tetragrams_to_bytes                                              *)
(***************************************************************************)
FilterWhitespace(s) == SelectSeq(s, LAMBDA c : ~is_whitespace(c))

\* a range check that excludes the first glyph of the alphabet
InAlphabet_exclusiveLow(code) == ~(code <= GLYPH_BASE \/ code > GLYPH_BASE + 80)

InAlphabet(code) == ~(code < GLYPH_BASE \/ code > GLYPH_BASE + 80)

\* index of the last glyph outside the alphabet, 0 if there is none
LastInvalid(glyphs) ==
    LET bad == {i \in 1..Len(glyphs) : ~InAlphabet(glyphs[i])}
    IN  IF bad = {} THEN 0 ELSE CHOOSE i \in bad : \A j \in bad : i >= j

\* index of the first glyph the validation loop rejects, 0 if there is none
FirstInvalid(glyphs) ==
    LET bad == {i \in 1..Len(glyphs) : ~InAlphabet(glyphs[i])}
    IN  IF bad = {} THEN 0 ELSE CHOOSE i \in bad : \A j \in bad : i <= j

DigitsToBig(digits) == from_le(digits, 81)

\* the decoder without the check for an empty glyph list
decode_tetragrams_to_bytes_noEmptyCheck(s) ==
    LET glyphs == FilterWhitespace(s)
        k == FirstInvalid(glyphs)
    IN  IF k # 0 THEN Err("Invalid tetragram", glyphs[k])
        ELSE LET digits == [i \in 1..Len(glyphs) |-> glyphs[i] - GLYPH_BASE]
             IN  Ok(to_le(DigitsToBig(digits), 256))

decode_tetragrams_to_bytes(s) ==
    LET glyphs == FilterWhitespace(s)
        k == FirstInvalid(glyphs)
    IN  IF glyphs = <<>> THEN Err("No tetragram glyphs found in input", 0)
        ELSE IF k # 0 THEN Err("Invalid tetragram", glyphs[k])
        ELSE LET digits == [i \in 1..Len(glyphs) |-> glyphs[i] - GLYPH_BASE]
             IN  Ok(to_le(DigitsToBig(digits), 256))

(***************************************************************************)
(* UTF-8: str::as_bytes and String::from_utf8.  A text is the sequence of  *)
(* the code points of its characters.                                      *)
(***************************************************************************)
Utf8Char(c) ==
    IF c < 128 THEN <<c>>
    ELSE IF c < 2048 THEN <<192 + (c \div 64), 128 + (c % 64)>>
    ELSE IF c < 65536
         THEN <<224 + (c \div 4096), 128 + ((c \div 64) % 64), 128 + (c % 64)>>
    ELSE <<240 + (c \div 262144), 128 + ((c \div 4096) % 64),
           128 + ((c \div 64) % 64), 128 + (c % 64)>>

RECURSIVE as_bytes(_)
as_bytes(text) ==
    IF text = <<>> THEN <<>> ELSE Utf8Char(Head(text)) \o as_bytes(Tail(text))

IsCont(b) == b \in 128..191

\* from_utf8: [ok |-> TRUE, chars |-> the text] for well-formed UTF-8
RECURSIVE from_utf8(_, _)
from_utf8(bytes, chars) ==
    IF bytes = <<>> THEN [ok |-> TRUE, chars |-> chars]
    ELSE LET b == bytes[1]
             n == Len(bytes)
         IN  IF b < 128
             THEN from_utf8(SubSeq(bytes, 2, n), Append(chars, b))
             ELSE IF b \in 194..223 /\ n >= 2 /\ IsCont(bytes[2])
             THEN from_utf8(SubSeq(bytes, 3, n),
                            Append(chars, (b - 192) * 64 + (bytes[2] - 128)))
             ELSE IF /\ b \in 224..239 /\ n >= 3
                     /\ IsCont(bytes[2]) /\ IsCont(bytes[3])
                     /\ (b = 224 => bytes[2] >= 160)
                     /\ (b = 237 => bytes[2] <= 159)
             THEN from_utf8(SubSeq(bytes, 4, n),
                            Append(chars, (b - 224) * 4096 + (bytes[2] - 128) * 64
                                          + (bytes[3] - 128)))
             ELSE IF /\ b \in 240..244 /\ n >= 4
                     /\ IsCont(bytes[2]) /\ IsCont(bytes[3]) /\ IsCont(bytes[4])
                     /\ (b = 240 => bytes[2] >= 144)
                     /\ (b = 244 => bytes[2] <= 143)
             THEN from_utf8(SubSeq(bytes, 5, n),
                            Append(chars, (b - 240) * 262144 + (bytes[2] - 128) * 4096
                                          + (bytes[3] - 128) * 64 + (bytes[4] - 128)))
             ELSE [ok |-> FALSE, chars |-> <<>>]

\* the text "Invalid UTF-8"
InvalidUtf8Text == <<73, 110, 118, 97, 108, 105, 100, 32, 85, 84, 70, 45, 56>>

(***************************************************************************)
(* The direct trit codec.                                                  *)
(***************************************************************************)
\* text_to_trits: the match on the remainder
RemainderTrit(remainder) ==
    CASE remainder = 0 -> 0
      [] remainder = 1 -> 1
      [] remainder = 2 -> -1

\* text_to_trits: the "while value > 0" loop of one byte
RECURSIVE ByteTrits(_)
ByteTrits(value) ==
    IF value > 0
    THEN <<RemainderTrit(value % 3)>> \o ByteTrits(value \div 3)
    ELSE <<>>

\* text_to_trits: the padding loop, on the whole trit vector
RECURSIVE PadTo4(_)
PadTo4(trits) ==
    IF Len(trits) % 4 # 0 THEN PadTo4(Append(trits, 0)) ELSE trits

RECURSIVE TritsOfBytes(_, _)
TritsOfBytes(bytes, trits) ==
    IF bytes = <<>> THEN trits
    ELSE TritsOfBytes(Tail(bytes), PadTo4(trits \o ByteTrits(Head(bytes))))

text_to_trits(text) == TritsOfBytes(as_bytes(text), <<>>)

TetragramIndex(trit) ==
    CASE trit = -1 -> 0
      [] trit = 0 -> 27
      [] trit = 1 -> 54

encode_trits_to_tetragrams_direct(trits) ==
    [i \in 1..Len(trits) |-> TETRAGRAM_BASE + TetragramIndex(trits[i])]

\* encode_text_to_tetragrams_direct: the glyph stream written to the file
encode_text_to_tetragrams_direct(text) ==
    encode_trits_to_tetragrams_direct(text_to_trits(text))

IndexTrit(index) ==
    CASE index \in 0..26 -> -1
      [] index \in 27..53 -> 0
      [] index \in 54..80 -> 1

\* characters outside the alphabet are passed over
decode_tetragrams_to_trits_direct(tetragrams) ==
    LET inRange == SelectSeq(tetragrams,
                     LAMBDA code : code >= TETRAGRAM_BASE /\ code <= TETRAGRAM_BASE + 80)
    IN  [i \in 1..Len(inRange) |-> IndexTrit(inRange[i] - TETRAGRAM_BASE)]

TritValue(trit) ==
    CASE trit = -1 -> 2
      [] trit = 0 -> 0
      [] trit = 1 -> 1

\* trits_to_text: the loop over the trits; "as u8" keeps the low 8 bits
RECURSIVE TritsToBytes(_, _, _, _)
TritsToBytes(trits, bytes, current_byte, trit_count) ==
    IF trits = <<>> THEN bytes
    ELSE LET next_byte == current_byte * 3 + TritValue(Head(trits))
         IN  IF trit_count + 1 = 4
             THEN TritsToBytes(Tail(trits), Append(bytes, next_byte % 256), 0, 0)
             ELSE TritsToBytes(Tail(trits), bytes, next_byte, trit_count + 1)

trits_to_text(trits) ==
    LET decoded == from_utf8(TritsToBytes(trits, <<>>, 0, 0), <<>>)
    IN  IF decoded.ok THEN decoded.chars ELSE InvalidUtf8Text

decode_tetragrams_to_text_direct(s) ==
    Ok(trits_to_text(decode_tetragrams_to_trits_direct(s)))

(***************************************************************************)
(* The cost functions of the runtime crate (trinaryvm_runtime), which the  *)
(* estimator calls: pure functions whose values are those of the table and *)
(* of intr.  An opcode is identified with its byte.                        *)
(***************************************************************************)
\* Opcode::from_byte(b) is Ok
IsOpcode(b) == table[b].kind # "invalid"

get_opcode_cost(opcode) == table[opcode].base

is_homomorphic_op(opcode) == table[opcode].kind = "homomorphic"

calculate_homomorphic_gas(opcode, data_size) == table[opcode].he

\* the intrinsic gas of the bytecode of the behaviour
calculate_intrinsic_gas(code, is_tetragram_compressed) ==
    intr[is_tetragram_compressed]

\* GasTier::from_gas_limit, a step function of the gas limit
from_gas_limit(gas_limit) ==
    IF gas_limit >= tiers.tier9 THEN "Tier9"
    ELSE IF gas_limit >= tiers.tier6 THEN "Tier6"
    ELSE "Tier3"

(***************************************************************************)
(* GasEstimator (gas_estimate.rs)                                          *)
(***************************************************************************)
DEFAULT_DATA_SIZE == 2187

\* the entry of the opcode_counts map, 0 for an absent key
CountOf(opcode_counts, opcode) ==
    IF opcode \in DOMAIN opcode_counts THEN opcode_counts[opcode] ELSE 0

\* the scan charging the base cost for every opcode
ScanStep_baseCost(acc, byte) ==
    IF IsOpcode(byte)
    THEN [execution_gas |-> acc.execution_gas + get_opcode_cost(byte),
          homomorphic_gas |->
              IF is_homomorphic_op(byte)
              THEN acc.homomorphic_gas
                   + calculate_homomorphic_gas(byte, DEFAULT_DATA_SIZE)
              ELSE acc.homomorphic_gas,
          opcode_counts |->
              [o \in DOMAIN acc.opcode_counts \cup {byte} |->
                  CountOf(acc.opcode_counts, o) + (IF o = byte THEN 1 ELSE 0)]]
    ELSE acc

\* the scan keeping the homomorphic cost out of the execution gas
ScanStep_heApart(acc, byte) ==
    IF IsOpcode(byte)
    THEN [execution_gas |->
              IF is_homomorphic_op(byte)
              THEN acc.execution_gas
              ELSE acc.execution_gas + get_opcode_cost(byte),
          homomorphic_gas |->
              IF is_homomorphic_op(byte)
              THEN acc.homomorphic_gas
                   + calculate_homomorphic_gas(byte, DEFAULT_DATA_SIZE)
              ELSE acc.homomorphic_gas,
          opcode_counts |->
              [o \in DOMAIN acc.opcode_counts \cup {byte} |->
                  CountOf(acc.opcode_counts, o) + (IF o = byte THEN 1 ELSE 0)]]
    ELSE acc

\* one iteration of the scan loop, on the byte at the offset
ScanStep(acc, byte) ==
    IF IsOpcode(byte)
    THEN LET gas_cost == get_opcode_cost(byte)
             he_gas == calculate_homomorphic_gas(byte, DEFAULT_DATA_SIZE)
         IN  [execution_gas |->
                  IF is_homomorphic_op(byte)
                  THEN acc.execution_gas + he_gas
                  ELSE acc.execution_gas + gas_cost,
              homomorphic_gas |->
                  IF is_homomorphic_op(byte)
                  THEN acc.homomorphic_gas + he_gas
                  ELSE acc.homomorphic_gas,
              opcode_counts |->
                  [o \in DOMAIN acc.opcode_counts \cup {byte} |->
                      CountOf(acc.opcode_counts, o) + (IF o = byte THEN 1 ELSE 0)]]
    ELSE acc

\* the scan loop from the offset to the end of the bytecode
RECURSIVE Scan(_, _, _)
Scan(code, offset, acc) ==
    IF offset < Len(code)
    THEN Scan(code, offset + 1, ScanStep(acc, code[offset + 1]))
    ELSE acc

\* a breakdown whose entries carry the cost of one occurrence
OpcodeBreakdown_unitGas(opcode_counts) ==
    {[opcode |-> opcode,
      count |-> opcode_counts[opcode],
      total_gas |-> IF is_homomorphic_op(opcode)
                    THEN calculate_homomorphic_gas(opcode, DEFAULT_DATA_SIZE)
                    ELSE get_opcode_cost(opcode)] :
        opcode \in DOMAIN opcode_counts}

\* the breakdown built from the map; the order of a HashMap iteration is
\* unspecified, the vector is modelled by the set of its entries
OpcodeBreakdown(opcode_counts) ==
    {[opcode |-> opcode,
      count |-> opcode_counts[opcode],
      total_gas |->
          (IF is_homomorphic_op(opcode)
           THEN calculate_homomorphic_gas(opcode, DEFAULT_DATA_SIZE)
           ELSE get_opcode_cost(opcode)) * opcode_counts[opcode]] :
        opcode \in DOMAIN opcode_counts}

\* a subtraction that does not saturate
saturating_sub_plain(a, b) == a - b

\* u64::saturating_sub
saturating_sub(a, b) == IF a >= b THEN a - b ELSE 0

\* the f64 (savings / original_gas) * 100.0, kept as a ratio
SavingsPercent(savings, original_gas) ==
    IF original_gas > 0
    THEN [num |-> savings * 100, den |-> original_gas]
    ELSE [num |-> 0, den |-> 1]

NoSavings ==
    [some |-> FALSE, original_gas |-> 0, compressed_gas |-> 0, savings |-> 0,
     savings_percent |-> [num |-> 0, den |-> 1]]

CompressionSavings(original_gas, compressed_gas) ==
    LET savings == saturating_sub(original_gas, compressed_gas)
    IN  [some |-> TRUE,
         original_gas |-> original_gas,
         compressed_gas |-> compressed_gas,
         savings |-> savings,
         savings_percent |-> SavingsPercent(savings, original_gas)]

\* savings taken against the intrinsic gas of the call itself
EstimateSavings_sameFlag(code, is_tetragram_compressed, intrinsic_gas) ==
    IF is_tetragram_compressed
    THEN CompressionSavings(
             calculate_intrinsic_gas(code, is_tetragram_compressed), intrinsic_gas)
    ELSE NoSavings

\* estimate_contract: the compression_savings field
EstimateSavings(code, is_tetragram_compressed, intrinsic_gas) ==
    IF is_tetragram_compressed
    THEN CompressionSavings(calculate_intrinsic_gas(code, FALSE), intrinsic_gas)
    ELSE NoSavings

\* a total that leaves the intrinsic gas out
TotalGas_executionOnly(intrinsic_gas, execution_gas) == execution_gas

TotalGas(intrinsic_gas, execution_gas) == intrinsic_gas + execution_gas

\* a recommendation taken from the execution gas alone
RecommendedTier_executionGas(total_gas, execution_gas) ==
    from_gas_limit(execution_gas)

\* estimate_contract: the recommended_tier field
RecommendedTier(total_gas, execution_gas) == from_gas_limit(total_gas)

NoEstimate ==
    [done |-> FALSE, total_gas |-> 0, recommended_tier |-> "",
     intrinsic_gas |-> 0, execution_gas |-> 0,
     homomorphic_gas |-> 0, opcode_breakdown |-> {},
     compression_savings |-> NoSavings]

\* the tallies before the scan loop
ZeroTally == [execution_gas |-> 0, homomorphic_gas |-> 0, opcode_counts |-> <<>>]

\* estimate_contract after the scan loop, which has left the tallies scanned
EstimateOf(code, is_tetragram_compressed, scanned) ==
    LET intrinsic_gas == calculate_intrinsic_gas(code, is_tetragram_compressed)
        total_gas == TotalGas(intrinsic_gas, scanned.execution_gas)
    IN  [done |-> TRUE,
         total_gas |-> total_gas,
         recommended_tier |->
             RecommendedTier(total_gas, scanned.execution_gas),
         intrinsic_gas |-> intrinsic_gas,
         execution_gas |-> scanned.execution_gas,
         homomorphic_gas |-> scanned.homomorphic_gas,
         opcode_breakdown |-> OpcodeBreakdown(scanned.opcode_counts),
         compression_savings |->
             EstimateSavings(code, is_tetragram_compressed, intrinsic_gas)]

estimate_contract(code, is_tetragram_compressed) ==
    EstimateOf(code, is_tetragram_compressed, Scan(code, 0, ZeroTally))

calculate_compression_savings(data) ==
    CompressionSavings(calculate_intrinsic_gas(data, FALSE),
                       calculate_intrinsic_gas(data, TRUE))

recommend_tier(gas_limit) == from_gas_limit(gas_limit)

NoRecommendation == [done |-> FALSE, gas_limit |-> 0, tier |-> ""]

(***************************************************************************)
(* Number conversions and convert_tetragram_file                           *)
(***************************************************************************)
\* a parser that reads the empty text as zero
ParseBigUint_emptyZero(text) ==
    IF \E i \in 1..Len(text) : text[i] \notin 48..57
    THEN [ok |-> FALSE, number |-> 0]
    ELSE [ok |-> TRUE,
          number |-> from_le(Reverse([i \in 1..Len(text) |-> text[i] - 48]), 10)]

\* str::parse::<BigUint>: an optional + sign, then decimal digits
ParseBigUint(text) ==
    LET s == IF text # <<>> /\ Head(text) = 43
                  /\ ~(Len(text) >= 2 /\ text[2] = 43)
             THEN Tail(text) ELSE text
    IN  IF s = <<>> \/ \E i \in 1..Len(s) : s[i] \notin 48..57
        THEN [ok |-> FALSE, number |-> 0]
        ELSE [ok |-> TRUE,
              number |-> from_le(Reverse([i \in 1..Len(s) |-> s[i] - 48]), 10)]

\* BigUint::to_bytes_le: one zero byte for zero
to_bytes_le(number) == IF number = 0 THEN <<0>> ELSE to_le(number, 256)

from_bytes_le(bytes) == from_le(bytes, 256)

\* to_str_radix that prints the digits least significant first
to_str_radix_le(number, radix) ==
    IF number = 0 THEN <<48>>
    ELSE LET digits == to_le(number, radix)
         IN  [i \in 1..Len(digits) |-> 48 + digits[i]]

\* BigUint::to_str_radix, for a radix up to 10
to_str_radix(number, radix) ==
    IF number = 0 THEN <<48>>
    ELSE LET digits == Reverse(to_le(number, radix))
         IN  [i \in 1..Len(digits) |-> 48 + digits[i]]

\* encode_number_to_tetragrams: Ok with the glyph stream it writes
encode_number_to_tetragrams(text) ==
    LET parsed == ParseBigUint(text)
    IN  IF ~parsed.ok THEN Err("Failed to parse number", 0)
        ELSE Ok(encode_universal_to_tetragrams(to_bytes_le(parsed.number)))

decode_tetragrams_to_number(s) ==
    LET bytes == decode_tetragrams_to_bytes(s)
    IN  IF bytes.st = "Err" THEN bytes
        ELSE Ok(to_str_radix(from_bytes_le(bytes.val), 10))

\* str::to_lowercase, on the format names
to_lowercase(format) == IF format = "Text" THEN "text" ELSE format

\* translator::bytecode_to_glyphs of the runtime crate when it gives a
\* non-empty string: a stream the model does not interpret, written as the
\* code point 0 followed by the bytes of the bytecode
TranslatedGlyphs(data) == <<0>> \o data

\* the fallback encoder of the tritvm -> sm conversion (no padding)
FallbackGlyphs(data) ==
    LET digits == Base81Digits(from_bytes_le(data))
    IN  [i \in 1..Len(digits) |-> GLYPH_BASE + digits[i]]

NoFile == [exists |-> FALSE, data |-> <<>>]

File(data) == [exists |-> TRUE, data |-> data]

\* a dispatch that decodes numbers with the direct codec
DecodeBranch_mixed(to_fmt, glyphs) == decode_tetragrams_to_text_direct(glyphs)

\* the decoder of a sm -> number or sm -> text conversion
DecodeBranch(to_fmt, glyphs) ==
    IF to_fmt = "number"
    THEN decode_tetragrams_to_number(glyphs)
    ELSE decode_tetragrams_to_text_direct(glyphs)

\* convert_tetragram_file: the codec function it calls, its result (for a
\* decoding conversion with the decoded text), what it writes to the .sm
\* file and to the output file.  sm_file, tritvm_file are the files when
\* the call starts, glyph_stream_t tells whether the translator gives an
\* empty string; the file system accepts every write.
convert_tetragram_file(args, sm_file, tritvm_file, glyph_stream_t) ==
    LET from_fmt == to_lowercase(args.from)
        to_fmt == to_lowercase(args.to)
        glyphs == IF sm_file.exists /\ args.input = SmPath
                  THEN sm_file.data ELSE args.input
        Done(codec, result, sm_written, out_written) ==
            [codec |-> codec, result |-> result,
             glyphs |-> IF codec \in {"universal", "direct"} /\ from_fmt = "sm"
                        THEN glyphs ELSE <<>>,
             sm_written |-> sm_written, out_written |-> out_written]
    IN  IF from_fmt = "number" /\ to_fmt = "sm"
        THEN LET r == encode_number_to_tetragrams(args.input)
             IN  IF r.st = "Err" THEN Done("universal", r, NoFile, NoFile)
                 ELSE Done("universal", Ok(<<>>), File(r.val), NoFile)
        ELSE IF from_fmt = "text" /\ to_fmt = "sm"
        THEN Done("direct", Ok(<<>>),
                  File(encode_text_to_tetragrams_direct(args.input)), NoFile)
        ELSE IF from_fmt = "sm" /\ to_fmt \in {"number", "text"}
        THEN LET r == DecodeBranch(to_fmt, glyphs)
                 codec == IF to_fmt = "number" THEN "universal" ELSE "direct"
             IN  IF r.st = "Err" THEN Done(codec, r, NoFile, NoFile)
                 ELSE Done(codec, r, NoFile,
                           IF args.output # "" THEN File(r.val) ELSE NoFile)
        ELSE IF from_fmt = "tritvm" /\ to_fmt = "sm"
        THEN IF ~(tritvm_file.exists /\ args.input = TritvmPath)
             THEN Done("translator", Err("No such file or directory", 0),
                       NoFile, NoFile)
             ELSE IF glyph_stream_t # "empty"
             THEN Done("translator", Ok(<<>>),
                       File(TranslatedGlyphs(tritvm_file.data)), NoFile)
             ELSE Done("fallback", Ok(<<>>),
                       File(FallbackGlyphs(tritvm_file.data)), NoFile)
        ELSE Done("none", Err("Unsupported conversion", 0), NoFile, NoFile)

NoConversion ==
    [done |-> FALSE,
     args |-> [input |-> <<>>, output |-> "", from |-> "", to |-> "",
               text |-> FALSE, number |-> FALSE],
     codec |-> "none", sm_written |-> FALSE, out_written |-> FALSE]

(***************************************************************************)
(* compile_pipeline                                                        *)
(***************************************************************************)
\* the runs of the pipeline
Runs == {1, 2}

\* the sources handed to the pipeline; a source is written as the bytecode
\* compile_source writes for it
Sources == {<<1>>, <<81, 1>>}

\* the glyph stream the tritvm -> sm conversion writes for a bytecode
GlyphStreamOf(data) ==
    IF translates THEN TranslatedGlyphs(data) ELSE FallbackGlyphs(data)

NoRun ==
    [pc |-> "idle", source |-> <<>>, keep_intermediate |-> FALSE,
     result |-> NoResult]

\* no pipeline runs
InitPipeIdle ==
    /\ pipe = [r \in Runs |-> NoRun]
    /\ outs = [r \in Runs |-> NoFile]
    /\ translates = FALSE

(***************************************************************************)
(* Interleaved invocations.  An invocation is a record with the function   *)
(* (kind), the argument (arg, and flag for the estimator), the position    *)
(* (pc), the local variables (loc: a vector seq, a number num, the tallies *)
(* acc of the estimator) and the result (res); overlap tells that it has   *)
(* taken a step while another invocation was under way.                    *)
(***************************************************************************)
Invocations == {1, 2}

NoLocals == [seq |-> <<>>, num |-> 0, acc |-> ZeroTally]

NoCall(kind) ==
    [kind |-> kind, arg |-> <<>>, flag |-> FALSE, pc |-> "done",
     loc |-> NoLocals, res |-> NoResult, overlap |-> FALSE]

Call(kind, arg, compressed) ==
    [kind |-> kind, arg |-> arg, flag |-> compressed, pc |-> "start",
     loc |-> NoLocals, res |-> NoResult, overlap |-> FALSE]

\* the calls of the interleaved invocations
ConcurrentCalls ==
    {Call("encode_universal", <<>>, FALSE),
     Call("encode_universal", <<255, 1>>, FALSE),
     Call("decode_universal", <<GLYPH_BASE + 1, 32, GLYPH_BASE + 3>>, FALSE),
     Call("decode_universal", <<GLYPH_BASE, 65>>, FALSE),
     Call("decode_universal", <<32>>, FALSE),
     Call("encode_direct", <<65>>, FALSE),
     Call("encode_direct", <<233, 4>>, FALSE),
     Call("decode_direct",
          <<TETRAGRAM_BASE, TETRAGRAM_BASE + 27, TETRAGRAM_BASE + 54,
            TETRAGRAM_BASE + 54, TETRAGRAM_BASE>>, FALSE),
     Call("estimate", <<1, 2, 0, 2>>, TRUE),
     Call("estimate", <<2, 1>>, FALSE)}

\* one set of tallies for all invocations
Tally_shared(invs, q) == invs[1].loc.acc

\* the tallies of an invocation are its own local variables
Tally(invs, q) == invs[q].loc.acc

\* encode_universal_to_tetragrams, from one local variable to the next
EncodeUniversalStep(i) ==
    CASE i.pc = "start" ->
           [i EXCEPT !.pc = "big_number", !.loc.num = BytesToBig(i.arg)]
      [] i.pc = "big_number" ->
           [i EXCEPT !.pc = "digits", !.loc.seq = Base81Digits(i.loc.num)]
      [] i.pc = "digits" ->
           [i EXCEPT !.pc = "done",
                     !.res = Ok(PadTo9([k \in 1..Len(i.loc.seq) |->
                                           GLYPH_BASE + i.loc.seq[k]]))]

\* decode_tetragrams_to_bytes, from one local variable to the next
DecodeUniversalStep(i) ==
    CASE i.pc = "start" ->
           [i EXCEPT !.pc = "glyphs", !.loc.seq = FilterWhitespace(i.arg)]
      [] i.pc = "glyphs" ->
           LET glyphs == i.loc.seq
               k == FirstInvalid(glyphs)
           IN  IF glyphs = <<>>
               THEN [i EXCEPT !.pc = "done",
                              !.res = Err("No tetragram glyphs found in input", 0)]
               ELSE IF k # 0
               THEN [i EXCEPT !.pc = "done",
                              !.res = Err("Invalid tetragram", glyphs[k])]
               ELSE [i EXCEPT !.pc = "big_number",
                              !.loc.num = DigitsToBig([j \in 1..Len(glyphs) |->
                                                         glyphs[j] - GLYPH_BASE])]
      [] i.pc = "big_number" ->
           [i EXCEPT !.pc = "done", !.res = Ok(to_le(i.loc.num, 256))]

\* encode_text_to_tetragrams_direct: the trits, then the tetragrams
EncodeDirectStep(i) ==
    CASE i.pc = "start" ->
           [i EXCEPT !.pc = "trits", !.loc.seq = text_to_trits(i.arg)]
      [] i.pc = "trits" ->
           [i EXCEPT !.pc = "done",
                     !.res = Ok(encode_trits_to_tetragrams_direct(i.loc.seq))]

\* decode_tetragrams_to_text_direct: the trits, then the text
DecodeDirectStep(i) ==
    CASE i.pc = "start" ->
           [i EXCEPT !.pc = "trits",
                     !.loc.seq = decode_tetragrams_to_trits_direct(i.arg)]
      [] i.pc = "trits" ->
           [i EXCEPT !.pc = "done", !.res = Ok(trits_to_text(i.loc.seq))]

\* estimate_contract: the tallies are set up, the scan loop runs one
\* iteration at a time (num is the offset), the estimate is built
EstimateStep(invs, q) ==
    LET i == invs[q]
    IN  CASE i.pc = "start" ->
               [i EXCEPT !.pc = "scan", !.loc.num = 0, !.loc.acc = ZeroTally]
          [] i.pc = "scan" /\ i.loc.num < Len(i.arg) ->
               [i EXCEPT !.loc.acc = ScanStep(Tally(invs, q), i.arg[i.loc.num + 1]),
                         !.loc.num = i.loc.num + 1]
          [] i.pc = "scan" /\ i.loc.num >= Len(i.arg) ->
               [i EXCEPT !.pc = "done",
                         !.res = EstimateOf(i.arg, i.flag, Tally(invs, q))]

\* no invocation runs
InitConcIdle ==
    /\ inv = [q \in Invocations |-> NoCall("none")]

(***************************************************************************)
(* validate_tetragram_file                                                 *)
(***************************************************************************)
\* char::is_control: the code points of the general category Cc
is_control(c) == c \in 0..31 \/ c \in 127..159

\* the validator skips the character
Skipped(ch) == is_whitespace(ch) \/ is_control(ch)

NoVerdict ==
    [st |-> "none", err |-> "", valid_tetragrams |-> 0, invalid_chars |-> <<>>]

\* validate_tetragram_file on a file with the extension and the content;
\* char_position counts from 0
validate_tetragram_file(extension, content) ==
    LET Valid(code) == code >= 119558 /\ code <= 119638
        valid == {i \in 1..Len(content) :
                    ~Skipped(content[i]) /\ Valid(content[i])}
        invalid == {i \in 1..Len(content) :
                      ~Skipped(content[i]) /\ ~Valid(content[i])}
        invalid_chars ==
            [k \in 1..Cardinality(invalid) |->
                LET i == CHOOSE j \in invalid :
                             Cardinality({h \in invalid : h < j}) = k - 1
                IN  [ch |-> content[i], pos |-> i - 1, code |-> content[i]]]
    IN  IF extension # "sm"
        THEN [st |-> "Err", err |-> "Expected .sm (Supreme Mystery) file",
              valid_tetragrams |-> 0, invalid_chars |-> <<>>]
        ELSE IF invalid # {}
        THEN [st |-> "Err", err |-> "File contains invalid tetragram characters",
              valid_tetragrams |-> Cardinality(valid),
              invalid_chars |-> invalid_chars]
        ELSE [st |-> "Ok", err |-> "", valid_tetragrams |-> Cardinality(valid),
              invalid_chars |-> <<>>]

\* no file has been validated
InitConvIdle ==
    /\ verdict = NoVerdict
    /\ cnv = NoConversion
    /\ outfile = NoFile
    /\ tritvm = NoFile

(***************************************************************************)
(* Runtime binary detection and invocation (runtime_binary.rs)             *)
(***************************************************************************)
RUNTIME_BINARY == "trinaryvm"

common_paths ==
    <<"/usr/local/bin/trinaryvm", "/usr/bin/trinaryvm",
      "~/.local/bin/trinaryvm", "./trinaryvm">>

\* shellexpand::tilde, for the paths of common_paths
tilde(path) ==
    IF path = "~/.local/bin/trinaryvm" THEN "$HOME/.local/bin/trinaryvm" ELSE path

\* the commands find_runtime_binary may run, in the order it tries them
Candidates ==
    <<RUNTIME_BINARY>> \o [i \in 1..Len(common_paths) |-> tilde(common_paths[i])]

\* what running a command with --version may give: the process cannot be
\* started, it exits with a failure status, it exits successfully
ProbeOutcomes == {"cannot_start", "exit_nonzero", "exit_zero"}

\* what running the binary with the arguments of the caller may give
RunOutcomes == {"cannot_start", "exit_nonzero", "exit_zero"}

\* a probe that accepts every command that starts
VersionSucceeds_started(command) == probe[command] # "cannot_start"

\* .status().map(|s| s.success()).unwrap_or(false)
VersionSucceeds(command) == probe[command] = "exit_zero"

is_runtime_available == VersionSucceeds(RUNTIME_BINARY)

\* the loop over common_paths from the i-th path on; probed is the sequence
\* of the commands run with --version so far
RECURSIVE FindInCommonPaths(_, _)
FindInCommonPaths(i, probed) ==
    IF i > Len(common_paths)
    THEN [found |-> FALSE, binary |-> "", probed |-> probed]
    ELSE LET expanded == tilde(common_paths[i])
         IN  IF VersionSucceeds(expanded)
             THEN [found |-> TRUE, binary |-> expanded,
                   probed |-> Append(probed, expanded)]
             ELSE FindInCommonPaths(i + 1, Append(probed, expanded))

find_runtime_binary ==
    IF is_runtime_available
    THEN [found |-> TRUE, binary |-> RUNTIME_BINARY, probed |-> <<RUNTIME_BINARY>>]
    ELSE FindInCommonPaths(1, <<RUNTIME_BINARY>>)

NoInvocation ==
    [done |-> FALSE, probed |-> <<>>, binary |-> "", spawned |-> <<>>,
     st |-> "none", val |-> "", err |-> "", detail |-> ""]

\* invoke_runtime; spawned is the sequence of the commands run with the
\* arguments of the caller
invoke_runtime ==
    LET located == find_runtime_binary
        binary == located.binary
    IN  IF ~located.found
        THEN [done |-> TRUE, probed |-> located.probed, binary |-> "",
              spawned |-> <<>>, st |-> "Err", val |-> "",
              err |-> "get_install_instructions", detail |-> ""]
        ELSE IF run = "cannot_start"
        THEN [done |-> TRUE, probed |-> located.probed, binary |-> binary,
              spawned |-> <<binary>>, st |-> "Err", val |-> "",
              err |-> "Failed to execute", detail |-> binary]
        ELSE IF run = "exit_nonzero"
        THEN [done |-> TRUE, probed |-> located.probed, binary |-> binary,
              spawned |-> <<binary>>, st |-> "Err", val |-> "",
              err |-> "Runtime execution failed", detail |-> "stderr"]
        ELSE [done |-> TRUE, probed |-> located.probed, binary |-> binary,
              spawned |-> <<binary>>, st |-> "Ok", val |-> "stdout",
              err |-> "", detail |-> ""]

\* no runtime binary is installed, invoke_runtime has not been called
InitRtIdle ==
    /\ probe = [c \in {Candidates[i] : i \in 1..Len(Candidates)} |-> "cannot_start"]
    /\ run = "cannot_start"
    /\ rt = NoInvocation

(***************************************************************************)
(* Operations.                                                             *)
(***************************************************************************)
\* no estimator call is made: no bytecode, a runtime without opcodes
InitGasIdle ==
    /\ bytecode = <<>>
    /\ table = [b \in CodeBytes |-> [kind |-> "invalid", base |-> 0, he |-> 0]]
    /\ intr = [c \in BOOLEAN |-> 0]
    /\ flag = FALSE
    /\ est = NoEstimate
    /\ sav = NoSavings
    /\ tiers = [tier6 |-> 1500000, tier9 |-> 5000000]
    /\ rec = NoRecommendation

Init ==
    /\ input = <<>>
    /\ sm = <<>>
    /\ origin = "none"
    /\ stream = <<>>
    /\ out = NoResult
    /\ last = "init"
    /\ InitGasIdle
    /\ InitRtIdle
    /\ InitConvIdle
    /\ InitPipeIdle
    /\ InitConcIdle

\* convert: the universal encoder writes the glyph stream of bytes to the file
\* (a behaviour follows one file from the call that creates it)
EncodeUniversal(bytes) ==
    /\ origin = "none"
    /\ input' = bytes
    /\ sm' = encode_universal_to_tetragrams(bytes)
    /\ origin' = "encode_universal"
    /\ stream' = <<>>
    /\ out' = Ok(<<>>)
    /\ last' = "encode_universal"
    /\ UNCHANGED beyondCodec

\* a glyph stream that was not produced by an encoder is put into the file
WriteStream(s) ==
    /\ origin = "none"
    /\ input' = <<>>
    /\ sm' = s
    /\ origin' = "user"
    /\ stream' = <<>>
    /\ out' = NoResult
    /\ last' = "write"
    /\ UNCHANGED beyondCodec

\* the universal decoder is run on the content of the file
DecodeUniversal ==
    /\ origin # "none"
    /\ last \in {"encode_universal", "write", "validate"}
    /\ stream' = sm
    /\ out' = decode_tetragrams_to_bytes(stream')
    /\ last' = "decode_universal"
    /\ UNCHANGED <<input, sm, origin>>
    /\ UNCHANGED beyondCodec

\* the universal decoder is run again on the stream it has just decoded,
\* followed by one more zero-digit glyph
DecodeUniversalPadded ==
    /\ last \in {"decode_universal", "decode_universal_padded"}
    /\ Len(stream) < MaxPadded
    /\ stream' = Append(stream, GLYPH_BASE)
    /\ out' = decode_tetragrams_to_bytes(stream')
    /\ last' = "decode_universal_padded"
    /\ UNCHANGED <<input, sm, origin>>
    /\ UNCHANGED beyondCodec

\* convert text -> sm: the direct encoder writes the glyph stream of a text
EncodeDirect(text) ==
    /\ origin = "none"
    /\ input' = text
    /\ sm' = encode_text_to_tetragrams_direct(text)
    /\ origin' = "encode_direct"
    /\ stream' = <<>>
    /\ out' = Ok(<<>>)
    /\ last' = "encode_direct"
    /\ UNCHANGED beyondCodec

\* convert sm -> text: the direct decoder is run on the content of the file
DecodeDirect ==
    /\ last \in {"encode_direct", "write"}
    /\ stream' = sm
    /\ out' = decode_tetragrams_to_text_direct(stream')
    /\ last' = "decode_direct"
    /\ UNCHANGED <<input, sm, origin>>
    /\ UNCHANGED beyondCodec

Next ==
    \/ \E bytes \in SeqsUpTo(ByteVals, MaxBytes) : EncodeUniversal(bytes)
    \/ \E s \in SeqsUpTo(UniversalChars, MaxSyms) : WriteStream(s)
    \/ DecodeUniversal
    \/ DecodeUniversalPadded

Spec == Init /\ [][Next]_vars

NextDirect ==
    \/ \E text \in SeqsUpTo(TextChars, MaxText) : EncodeDirect(text)
    \/ \E s \in SeqsUpTo(DirectChars, MaxTrits) : WriteStream(s)
    \/ DecodeDirect

SpecDirect == Init /\ [][NextDirect]_vars

\* the estimator is constructed; the behaviour has one bytecode, and the
\* runtime some opcode table and some intrinsic gas for that bytecode
InitGas ==
    /\ input = <<>>
    /\ sm = <<>>
    /\ origin = "none"
    /\ stream = <<>>
    /\ out = NoResult
    /\ last = "init"
    /\ bytecode \in SeqsUpTo(CodeBytes, MaxCode)
    /\ table \in [CodeBytes -> TableEntries]
    /\ intr \in [BOOLEAN -> IntrinsicVals]
    /\ flag = FALSE
    /\ est = NoEstimate
    /\ sav = NoSavings
    /\ tiers \in TierSteps
    /\ rec = NoRecommendation
    /\ InitRtIdle
    /\ InitConvIdle
    /\ InitPipeIdle
    /\ InitConcIdle

EstimateContract(is_tetragram_compressed) ==
    /\ last = "init"
    /\ flag' = is_tetragram_compressed
    /\ est' = estimate_contract(bytecode, is_tetragram_compressed)
    /\ last' = "estimate_contract"
    /\ UNCHANGED <<bytecode, table, intr, sav, tiers, rec>>
    /\ UNCHANGED beyondGas

CalculateCompressionSavings ==
    /\ last = "init"
    /\ sav' = calculate_compression_savings(bytecode)
    /\ last' = "calculate_compression_savings"
    /\ UNCHANGED <<bytecode, table, intr, flag, est, tiers, rec>>
    /\ UNCHANGED beyondGas

RecommendTier(gas_limit) ==
    /\ last = "init"
    /\ rec' = [done |-> TRUE, gas_limit |-> gas_limit,
               tier |-> recommend_tier(gas_limit)]
    /\ last' = "recommend_tier"
    /\ UNCHANGED <<bytecode, table, intr, flag, est, sav, tiers>>
    /\ UNCHANGED beyondGas

NextGas ==
    \/ \E is_tetragram_compressed \in BOOLEAN :
           EstimateContract(is_tetragram_compressed)
    \/ CalculateCompressionSavings
    \/ \E gas_limit \in TierPoints : RecommendTier(gas_limit)

SpecGas == InitGas /\ [][NextGas]_vars

\* no conversion has been made
InitCodecIdle ==
    /\ input = <<>>
    /\ sm = <<>>
    /\ origin = "none"
    /\ stream = <<>>
    /\ out = NoResult
    /\ last = "init"

\* the machine has some installation of the runtime binary
InitRuntime ==
    /\ InitCodecIdle
    /\ InitGasIdle
    /\ InitConvIdle
    /\ InitPipeIdle
    /\ InitConcIdle
    /\ probe \in [{Candidates[i] : i \in 1..Len(Candidates)} -> ProbeOutcomes]
    /\ run \in RunOutcomes
    /\ rt = NoInvocation

InvokeRuntime ==
    /\ ~rt.done
    /\ rt' = invoke_runtime
    /\ UNCHANGED <<probe, run, codecVars, gasVars, convVars, pipeVars, concVars>>

NextRuntime == InvokeRuntime

\* validate: the validator is run on the file, which has some extension
ValidateFile(extension) ==
    /\ last = "write"
    /\ verdict' = validate_tetragram_file(extension, sm)
    /\ last' = "validate"
    /\ UNCHANGED <<input, sm, origin, stream, out>>
    /\ UNCHANGED <<cnv, outfile, tritvm>>
    /\ UNCHANGED <<gasVars, rtVars, pipeVars, concVars>>

NextValidate ==
    \/ \E s \in SeqsUpTo(ValidateChars, MaxSyms) : WriteStream(s)
    \/ \E extension \in Extensions : ValidateFile(extension)
    \/ DecodeUniversal

SpecValidate == Init /\ [][NextValidate]_vars

\* some .tritvm file may be on the disk; no conversion has been made
InitConvert ==
    /\ InitCodecIdle
    /\ InitGasIdle
    /\ InitRtIdle
    /\ verdict = NoVerdict
    /\ cnv = NoConversion
    /\ outfile = NoFile
    /\ tritvm \in TritvmFiles
    /\ InitPipeIdle
    /\ InitConcIdle

\* the texts given as the input of a conversion before the .sm file exists
ConvertInputs ==
    SeqsUpTo(NumberChars, MaxNumText) \cup SeqsUpTo(TextChars, MaxText)
        \cup {<<GLYPH_BASE + 1>>}

\* the number of a glyph stream is below 81^4: after its fourth glyph the
\* stream has only whitespace and zero-digit glyphs
SmallNumber(s) ==
    LET glyphs == FilterWhitespace(s)
    IN  \A i \in 1..Len(glyphs) : i > 4 => glyphs[i] = GLYPH_BASE

\* convert: a behaviour follows one .sm file from the first conversion on;
\* once the file exists, conversions from sm are made with its path as the
\* input; a behaviour that starts with a .tritvm file converts that file
Convert(args, glyph_stream_t) ==
    /\ \/ /\ origin = "none"
          /\ IF to_lowercase(args.from) = "tritvm" /\ to_lowercase(args.to) = "sm"
             THEN args.input = TritvmPath
             ELSE /\ ~tritvm.exists
                  /\ args.input \in ConvertInputs
                  /\ glyph_stream_t = "glyphs"
       \/ /\ origin # "none"
          /\ last = "write" \/ (last = "convert" /\ cnv.sm_written)
          /\ to_lowercase(args.from) = "sm"
          /\ args.input = SmPath
          /\ glyph_stream_t = "glyphs"
          /\ to_lowercase(args.to) = "number" => SmallNumber(sm)
    /\ to_lowercase(args.to) = "sm" => args.output # ""
    /\ LET sm_file == IF origin = "none" THEN NoFile ELSE File(sm)
           c == convert_tetragram_file(args, sm_file, tritvm, glyph_stream_t)
       IN  /\ cnv' = [done |-> TRUE, args |-> args, codec |-> c.codec,
                      sm_written |-> c.sm_written.exists,
                      out_written |-> c.out_written.exists]
           /\ out' = c.result
           /\ stream' = c.glyphs
           /\ sm' = IF c.sm_written.exists THEN c.sm_written.data ELSE sm
           /\ origin' = IF c.sm_written.exists
                        THEN IF c.codec = "universal" THEN "convert_number"
                             ELSE IF c.codec = "direct" THEN "convert_text"
                             ELSE "convert_tritvm"
                        ELSE origin
           /\ input' = IF c.sm_written.exists THEN args.input ELSE input
           /\ outfile' = IF c.out_written.exists THEN c.out_written ELSE outfile
    /\ last' = "convert"
    /\ UNCHANGED <<verdict, tritvm>>
    /\ UNCHANGED <<gasVars, rtVars, pipeVars, concVars>>

NextConvert ==
    \/ /\ origin = "none"
       /\ ~cnv.done
       /\ \E from \in Formats, to \in Formats, text \in BOOLEAN, number \in BOOLEAN,
             in \in ConvertInputs \cup {TritvmPath},
             output \in {"", "out"}, glyph_stream_t \in {"empty", "glyphs"} :
              /\ ~(text /\ number)
              /\ Convert([input |-> in, output |-> output, from |-> from,
                          to |-> to, text |-> text, number |-> number],
                         glyph_stream_t)
    \/ /\ origin # "none"
       /\ \E to \in Formats, text \in BOOLEAN, number \in BOOLEAN,
             output \in {"", "out"} :
              /\ ~(text /\ number)
              /\ Convert([input |-> SmPath, output |-> output, from |-> "sm",
                          to |-> to, text |-> text, number |-> number],
                         "glyphs")
    \/ /\ ~cnv.done
       /\ \E s \in SeqsUpTo(UniversalChars, MaxSyms) : WriteStream(s)

SpecConvert == InitConvert /\ [][NextConvert]_vars

\* two runs of the pipeline are started on different sources, with
\* different output paths; no intermediate file is left from earlier runs
InitPipeline ==
    /\ InitCodecIdle
    /\ InitGasIdle
    /\ InitRtIdle
    /\ verdict = NoVerdict
    /\ cnv = NoConversion
    /\ outfile = NoFile
    /\ tritvm = NoFile
    /\ InitConcIdle
    /\ translates \in BOOLEAN
    /\ outs = [r \in Runs |-> NoFile]
    /\ \E sources \in [Runs -> Sources], keeps \in [Runs -> BOOLEAN] :
          /\ sources[1] # sources[2]
          /\ pipe = [r \in Runs |->
                       [pc |-> "start", source |-> sources[r],
                        keep_intermediate |-> keeps[r], result |-> NoResult]]

\* the pipeline variables a step of one run leaves alone
PipeFrame ==
    /\ UNCHANGED <<verdict, cnv, outfile, translates>>
    /\ UNCHANGED <<codecVars, gasVars, rtVars, concVars>>

\* compile_source writes the bytecode of the source to the temp path
CompileSource(r) ==
    /\ pipe[r].pc = "start"
    /\ tritvm' = File(pipe[r].source)
    /\ pipe' = [pipe EXCEPT ![r].pc = "compiled"]
    /\ UNCHANGED outs
    /\ PipeFrame

\* convert tritvm -> sm: the file at the temp path is read and handed to the
\* translator, whose glyph stream, if not empty, is written to the output
ReadBytecode(r) ==
    /\ pipe[r].pc = "compiled"
    /\ IF ~tritvm.exists
       THEN /\ pipe' = [pipe EXCEPT ![r].pc = "failed",
                                    ![r].result = Err("No such file or directory", 0)]
            /\ UNCHANGED outs
       ELSE IF translates
       THEN /\ outs' = [outs EXCEPT ![r] = File(TranslatedGlyphs(tritvm.data))]
            /\ pipe' = [pipe EXCEPT ![r].pc = "converted"]
       ELSE /\ pipe' = [pipe EXCEPT ![r].pc = "fallback"]
            /\ UNCHANGED outs
    /\ UNCHANGED tritvm
    /\ PipeFrame

\* convert tritvm -> sm: the fallback encoder reads the file again and
\* writes its glyph stream to the output
ReadBytecodeAgain(r) ==
    /\ pipe[r].pc = "fallback"
    /\ IF ~tritvm.exists
       THEN /\ pipe' = [pipe EXCEPT ![r].pc = "failed",
                                    ![r].result = Err("No such file or directory", 0)]
            /\ UNCHANGED outs
       ELSE /\ outs' = [outs EXCEPT ![r] = File(FallbackGlyphs(tritvm.data))]
            /\ pipe' = [pipe EXCEPT ![r].pc = "converted"]
    /\ UNCHANGED tritvm
    /\ PipeFrame

\* the intermediate file is removed unless it is kept; the run returns Ok
RemoveIntermediate(r) ==
    /\ pipe[r].pc = "converted"
    /\ tritvm' = IF pipe[r].keep_intermediate THEN tritvm ELSE NoFile
    /\ pipe' = [pipe EXCEPT ![r].pc = "done", ![r].result = Ok(<<>>)]
    /\ UNCHANGED outs
    /\ PipeFrame

NextPipeline ==
    \/ \E r \in Runs : CompileSource(r)
    \/ \E r \in Runs : ReadBytecode(r)
    \/ \E r \in Runs : ReadBytecodeAgain(r)
    \/ \E r \in Runs : RemoveIntermediate(r)

SpecPipeline == InitPipeline /\ [][NextPipeline]_vars

\* two invocations are started, each on its own argument; the runtime has
\* an opcode table with an unknown byte, a plain and a homomorphic opcode
InitConcurrent ==
    /\ InitCodecIdle
    /\ InitRtIdle
    /\ InitConvIdle
    /\ InitPipeIdle
    /\ bytecode = <<>>
    /\ table = [b \in CodeBytes |->
                  IF b = 0 THEN [kind |-> "invalid", base |-> 0, he |-> 0]
                  ELSE IF b = 1 THEN [kind |-> "plain", base |-> 2, he |-> 0]
                  ELSE [kind |-> "homomorphic", base |-> 1, he |-> 5]]
    /\ intr = [c \in BOOLEAN |-> IF c THEN 1 ELSE 3]
    /\ flag = FALSE
    /\ est = NoEstimate
    /\ sav = NoSavings
    /\ tiers = [tier6 |-> 1500000, tier9 |-> 5000000]
    /\ rec = NoRecommendation
    /\ inv \in [Invocations -> ConcurrentCalls]

\* the invocation takes a step while another one is under way
Overlaps(q) == \E o \in Invocations \ {q} : inv[o].pc \notin {"start", "done"}

\* a step of invocation q, which runs the function kind
StepOf(q, kind, next) ==
    /\ inv[q].kind = kind
    /\ inv[q].pc # "done"
    /\ inv' = [inv EXCEPT ![q] = [next EXCEPT !.overlap = @ \/ Overlaps(q)]]
    /\ UNCHANGED <<codecVars, gasVars, rtVars, convVars, pipeVars>>

StepEncodeUniversal(q) ==
    StepOf(q, "encode_universal", EncodeUniversalStep(inv[q]))

StepDecodeUniversal(q) ==
    StepOf(q, "decode_universal", DecodeUniversalStep(inv[q]))

StepEncodeDirect(q) == StepOf(q, "encode_direct", EncodeDirectStep(inv[q]))

StepDecodeDirect(q) == StepOf(q, "decode_direct", DecodeDirectStep(inv[q]))

StepEstimate(q) == StepOf(q, "estimate", EstimateStep(inv, q))

NextConcurrent ==
    \/ \E q \in Invocations : StepEncodeUniversal(q)
    \/ \E q \in Invocations : StepDecodeUniversal(q)
    \/ \E q \in Invocations : StepEncodeDirect(q)
    \/ \E q \in Invocations : StepDecodeDirect(q)
    \/ \E q \in Invocations : StepEstimate(q)

SpecConcurrent == InitConcurrent /\ [][NextConcurrent]_vars

SpecRuntime == InitRuntime /\ [][NextRuntime]_vars

(***************************************************************************)
(* Properties of the universal codec.                                      *)
(***************************************************************************)
\* the 81-value alphabet
Alphabet == GLYPH_BASE..(GLYPH_BASE + 80)

ZeroGlyph == GLYPH_BASE

RECURSIVE StripTrailingZeros(_)
StripTrailingZeros(bytes) ==
    IF bytes # <<>> /\ bytes[Len(bytes)] = 0
    THEN StripTrailingZeros(SubSeq(bytes, 1, Len(bytes) - 1))
    ELSE bytes

RECURSIVE ValueOf(_, _)
ValueOf(ds, base) ==
    IF ds = <<>> THEN 0
    ELSE ValueOf(SubSeq(ds, 1, Len(ds) - 1), base) * base + ds[Len(ds)]

\* the number whose little-endian digits in the given base are ds
LittleEndianValue(ds, base) == ValueOf(Reverse(ds), base)

DecodedEncoding == last = "decode_universal" /\ origin = "encode_universal"

\* C1: decoding the stream that the universal encoder wrote for a non-empty
\* byte sequence whose last byte is not zero returns exactly that sequence.
C1_RoundTripUniversal ==
    (DecodedEncoding /\ input # <<>> /\ input[Len(input)] # 0)
        => out = Ok(input)

C1_Witness ==
    /\ DecodedEncoding
    /\ Len(input) = 2
    /\ input[2] # 0
    /\ out = Ok(input)

\* C2: the stream the universal encoder writes is never empty, its length is
\* a multiple of 9 and all its symbols belong to the 81-value alphabet.
C2_Alignment ==
    origin = "encode_universal"
        => /\ sm # <<>>
           /\ Len(sm) % 9 = 0
           /\ \A i \in 1..Len(sm) : sm[i] \in Alphabet

C2_Witness ==
    /\ origin = "encode_universal"
    /\ last = "encode_universal"
    /\ input = <<0, 0>>
    /\ Len(sm) = 9

C4_EmptyInput ==
    (origin = "encode_universal" /\ input = <<>>
        /\ last \in {"encode_universal", "decode_universal"})
        => /\ sm = [i \in 1..9 |-> ZeroGlyph]
           /\ (last = "decode_universal" => out = Ok(<<>>))

C4_Witness ==
    /\ DecodedEncoding
    /\ input = <<>>
    /\ Len(sm) = 9
    /\ out.st = "Ok"

\* C5: decoding a stream that decodes successfully, followed by one more
\* zero-digit symbol, gives the same result again (hence, step by step, for
\* any number of appended zero-digit symbols).
C5_PaddingNeutral ==
    [][(last' = "decode_universal_padded" /\ out.st = "Ok") => out' = out]_vars

C5_Witness ==
    /\ last = "decode_universal_padded"
    /\ origin = "user"
    /\ Len(stream) >= 5
    /\ out.st = "Ok"
    /\ out.val # <<>>

\* position in the stream of the first symbol outside the alphabet, 0 if none
FirstOutside(s) ==
    LET bad == {i \in 1..Len(s) : s[i] \notin Alphabet}
    IN  IF bad = {} THEN 0 ELSE CHOOSE i \in bad : \A j \in bad : i <= j

\* position of the first symbol that is neither whitespace nor in the alphabet
FirstOffending(s) ==
    LET bad == {i \in 1..Len(s) : s[i] \notin Alphabet /\ ~is_whitespace(s[i])}
    IN  IF bad = {} THEN 0 ELSE CHOOSE i \in bad : \A j \in bad : i <= j

C7_EmptyStreamFails ==
    (last = "decode_universal" /\ stream = <<>>)
        => /\ out.st = "Err"
           /\ out.err = "No tetragram glyphs found in input"
           /\ out.val = <<>>

C7_Witness ==
    /\ last = "decode_universal"
    /\ origin = "user"
    /\ stream = <<>>
    /\ out.st = "Err"

(***************************************************************************)
(* Properties of the direct trit codec.                                    *)
(***************************************************************************)
\* the glyphs the direct encoder uses for the trits -1, 0 and +1
NegGlyph == TETRAGRAM_BASE

ZeroTritGlyph == TETRAGRAM_BASE + 27

PosGlyph == TETRAGRAM_BASE + 54

\* C8: decoding the stream the direct encoder wrote for a text whose bytes
\* are all below 81 returns that text.
C8_RoundTripDirect ==
    (last = "decode_direct" /\ origin = "encode_direct"
        /\ \A i \in 1..Len(input) : input[i] < 81)
        => out = Ok(input)

\* the four-symbol group of a byte below 81: its base-3 digits, least
\* significant first, 2 written as the trit -1
DigitGlyph(d) == IF d = 2 THEN NegGlyph ELSE IF d = 1 THEN PosGlyph ELSE ZeroTritGlyph

ByteGroup(b) ==
    <<DigitGlyph(b % 3), DigitGlyph((b \div 3) % 3),
      DigitGlyph((b \div 9) % 3), DigitGlyph((b \div 27) % 3)>>

\* C9: the direct encoder writes exactly four symbols for each byte of the
\* text, in the order of the bytes; a zero byte gives four zero-trit symbols.
C9_FourTritsPerByte ==
    origin = "encode_direct"
        => LET bytes == as_bytes(input)
           IN  /\ Len(sm) = 4 * Len(bytes)
               /\ \A i \in 1..Len(bytes) :
                     bytes[i] < 81 => SubSeq(sm, 4 * i - 3, 4 * i) = ByteGroup(bytes[i])

GlyphDigit(code) ==
    IF code - TETRAGRAM_BASE <= 26 THEN 2
    ELSE IF code - TETRAGRAM_BASE <= 53 THEN 0 ELSE 1

\* C10: the direct decoder computes each byte from a group of four trits as
\* the sum of digit(t_k) * 3^k, the first trit of the group being t_0.
C10_LeastSignificantFirst ==
    (last = "decode_direct" /\ Len(stream) % 4 = 0
        /\ \A i \in 1..Len(stream) : stream[i] \in Alphabet)
        => /\ out.st = "Ok"
           /\ out.val = [i \in 1..(Len(stream) \div 4) |->
                           GlyphDigit(stream[4 * i - 3])
                           + 3 * GlyphDigit(stream[4 * i - 2])
                           + 9 * GlyphDigit(stream[4 * i - 1])
                           + 27 * GlyphDigit(stream[4 * i])]

\* C11: the direct decoder fails with the malformed-trit-stream error when
\* the number of symbols of its input is not a multiple of 4.
C11_MalformedTritStream ==
    (last = "decode_direct" /\ Len(stream) % 4 # 0
        /\ \A i \in 1..Len(stream) : stream[i] \in Alphabet)
        => /\ out.st = "Err"
           /\ out.err = "MalformedTritStream"

(***************************************************************************)
(* Properties of the gas estimator.                                        *)
(***************************************************************************)
RECURSIVE SumSeq(_)
SumSeq(ns) == IF ns = <<>> THEN 0 ELSE Head(ns) + SumSeq(Tail(ns))

Estimated == last = "estimate_contract" /\ est.done

Recognized(b) == table[b].kind \in {"plain", "homomorphic"}

Homomorphic(b) == table[b].kind = "homomorphic"

\* the cost of one occurrence of a recognized opcode
UnitCost(b) == IF Homomorphic(b) THEN table[b].he ELSE table[b].base

Occurrences(b) == Cardinality({i \in 1..Len(bytecode) : bytecode[i] = b})

\* C13: execution gas is the sum over the recognized bytes of the
\* homomorphic cost (homomorphic opcodes) or the base cost (the others),
\* homomorphic gas the sum of the homomorphic cost over the homomorphic
\* bytes; unrecognized bytes add nothing and are not counted.
C13_GasAttribution ==
    Estimated
        => /\ est.execution_gas =
                SumSeq([i \in 1..Len(bytecode) |->
                          IF Recognized(bytecode[i]) THEN UnitCost(bytecode[i]) ELSE 0])
           /\ est.homomorphic_gas =
                SumSeq([i \in 1..Len(bytecode) |->
                          IF Homomorphic(bytecode[i]) THEN table[bytecode[i]].he ELSE 0])
           /\ \A e \in est.opcode_breakdown : Recognized(e.opcode)

C13_Witness ==
    /\ Estimated
    /\ Len(bytecode) = 3
    /\ Homomorphic(bytecode[1])
    /\ ~Recognized(bytecode[2])
    /\ Recognized(bytecode[3]) /\ ~Homomorphic(bytecode[3])
    /\ est.homomorphic_gas = 5
    /\ est.execution_gas = 7

\* C14: total gas is intrinsic gas plus execution gas, and intrinsic gas is
\* what the intrinsic cost function returns for the bytecode and the flag.
C14_TotalGas ==
    Estimated
        => /\ est.total_gas = est.intrinsic_gas + est.execution_gas
           /\ est.intrinsic_gas = intr[flag]

C14_Witness ==
    /\ Estimated
    /\ flag
    /\ intr[TRUE] = 1
    /\ intr[FALSE] = 3
    /\ est.execution_gas = 4
    /\ est.total_gas = 5

\* C15: the breakdown has exactly one entry for each recognized opcode that
\* occurs in the bytecode; the entry holds the number of occurrences and
\* the cost of one occurrence times that number.
C15_Breakdown ==
    Estimated
        => LET present == {b \in CodeBytes : Recognized(b) /\ Occurrences(b) > 0}
           IN  /\ {e.opcode : e \in est.opcode_breakdown} = present
               /\ Cardinality(est.opcode_breakdown) = Cardinality(present)
               /\ \A e \in est.opcode_breakdown :
                     /\ e.count = Occurrences(e.opcode)
                     /\ e.total_gas = UnitCost(e.opcode) * e.count

C15_Witness ==
    /\ Estimated
    /\ bytecode = <<0, 1, 2>>
    /\ \A b \in CodeBytes : table[b].kind = "plain"
    /\ Cardinality(est.opcode_breakdown) = 3
    /\ \A e \in est.opcode_breakdown : e.count = 1

\* the compression savings records that have been produced
SavingsRecords ==
    {r \in {est.compression_savings, sav} : r.some}

\* C17: in every compression savings record, savings is the larger of 0 and
\* original gas minus compressed gas, so it is between 0 and original gas,
\* and the percentage is 0 when original gas is 0.
C17_SavingsNonNegative ==
    \A r \in SavingsRecords :
        /\ r.savings >= 0
        /\ r.savings <= r.original_gas
        /\ r.savings = IF r.original_gas - r.compressed_gas > 0
                       THEN r.original_gas - r.compressed_gas ELSE 0
        /\ (r.original_gas = 0 => r.savings_percent.num = 0)

C17_Witness ==
    /\ last = "calculate_compression_savings"
    /\ sav.some
    /\ sav.original_gas = 0
    /\ sav.compressed_gas = 3
    /\ sav.savings = 0

\* C18: the estimate has a compression savings record exactly when the
\* compression flag is set; its compressed gas is the intrinsic gas of the
\* estimate, its original gas the intrinsic cost without compression.
C18_SavingsWhenCompressed ==
    Estimated
        => /\ est.compression_savings.some <=> flag
           /\ est.compression_savings.some
                 => /\ est.compression_savings.compressed_gas = est.intrinsic_gas
                    /\ est.compression_savings.original_gas = intr[FALSE]

C18_Witness ==
    /\ Estimated
    /\ flag
    /\ est.compression_savings.some
    /\ est.compression_savings.original_gas = 3
    /\ est.compression_savings.compressed_gas = 1
    /\ est.compression_savings.savings = 2

\* the tier of a gas limit: the third from the least gas limit of Tier9 on,
\* the second from the least gas limit of Tier6 on, the first below
StepTier(gas) ==
    CASE gas >= tiers.tier9 -> "Tier9"
      [] gas >= tiers.tier6 /\ gas < tiers.tier9 -> "Tier6"
      [] gas < tiers.tier6 -> "Tier3"

RECURSIVE SumGas(_)
SumGas(entries) ==
    IF entries = {}
    THEN 0
    ELSE LET e == CHOOSE x \in entries : TRUE
         IN  e.total_gas + SumGas(entries \ {e})

\* C27: the total_gas of the breakdown entries adds up to the execution
\* gas, the total_gas of the entries of homomorphic opcodes to the
\* homomorphic gas; homomorphic gas <= execution gas <= total gas.
C27_BreakdownConsistency ==
    Estimated
        => /\ SumGas(est.opcode_breakdown) = est.execution_gas
           /\ SumGas({e \in est.opcode_breakdown : Homomorphic(e.opcode)})
                 = est.homomorphic_gas
           /\ est.homomorphic_gas <= est.execution_gas
           /\ est.execution_gas <= est.total_gas

C27_Witness ==
    /\ Estimated
    /\ Cardinality(est.opcode_breakdown) = 2
    /\ \E e \in est.opcode_breakdown : Homomorphic(e.opcode) /\ e.count = 2
    /\ est.homomorphic_gas = 10
    /\ est.execution_gas = 12
    /\ est.total_gas = 15

(***************************************************************************)
(* Properties of the runtime invocation.                                   *)
(***************************************************************************)
\* the positions of the candidates that run successfully with --version
Working == {i \in 1..Len(Candidates) : probe[Candidates[i]] = "exit_zero"}

FirstWorking == CHOOSE i \in Working : \A j \in Working : i <= j

\* C30: invoke_runtime returns Ok with the standard output exactly when a
\* candidate runs successfully with --version and the process run with the
\* arguments of the caller exits successfully; the binary is the first such
\* candidate, the name on PATH coming first and the common paths in their
\* order; without such a candidate the result is Err with the install
\* instructions and nothing is run with the arguments of the caller; a
\* process that cannot be started or exits with a failure gives Err, with
\* the standard error in the second case.
C30_InvokeRuntime ==
    rt.done
        => /\ rt.st = "Ok" <=> (Working # {} /\ run = "exit_zero")
           /\ rt.st = "Ok" => rt.val = "stdout"
           /\ rt.st # "Ok" => rt.st = "Err"
           /\ Working # {}
                 => /\ rt.binary = Candidates[FirstWorking]
                    /\ rt.probed = SubSeq(Candidates, 1, FirstWorking)
                    /\ rt.spawned = <<rt.binary>>
                    /\ run = "cannot_start" => rt.err = "Failed to execute"
                    /\ run = "exit_nonzero"
                          => /\ rt.err = "Runtime execution failed"
                             /\ rt.detail = "stderr"
           /\ Working = {}
                 => /\ rt.err = "get_install_instructions"
                    /\ rt.probed = Candidates
                    /\ rt.spawned = <<>>

C30_Witness ==
    /\ rt.done
    /\ probe[RUNTIME_BINARY] = "exit_nonzero"
    /\ probe["/usr/local/bin/trinaryvm"] = "cannot_start"
    /\ probe["/usr/bin/trinaryvm"] = "exit_zero"
    /\ probe["./trinaryvm"] = "exit_zero"
    /\ rt.binary = "/usr/bin/trinaryvm"
    /\ run = "exit_nonzero"
    /\ rt.st = "Err"

(***************************************************************************)
(* Properties of the validator.                                            *)
(***************************************************************************)
\* C29: a file content the validator accepts and that holds at least one
\* tetragram is not rejected by the universal decoder with the
\* invalid-tetragram error.
C29_ValidatorDecoderAgreement ==
    (/\ last = "decode_universal"
     /\ verdict.st = "Ok"
     /\ \E i \in 1..Len(stream) : stream[i] \in Alphabet)
        => ~(out.st = "Err" /\ out.err = "Invalid tetragram")

(***************************************************************************)
(* Properties of the conversions.                                          *)
(***************************************************************************)
Converted == last = "convert" /\ cnv.done

\* the format names, in lower case
Lower(format) == CASE format = "Text" -> "text" [] OTHER -> format

ConvertedPair == <<Lower(cnv.args.from), Lower(cnv.args.to)>>

\* the text is a sequence of one or more decimal digits
AllDigits(text) == text # <<>> /\ \A i \in 1..Len(text) : text[i] \in 48..57

\* the text is a non-negative integer: digits, possibly after a + sign
NumberText(text) ==
    \/ AllDigits(text)
    \/ text # <<>> /\ Head(text) = 43 /\ AllDigits(Tail(text))

\* C23: a number -> sm conversion of a text that is not a non-negative
\* integer fails with the parse error; it writes neither a glyph stream nor
\* an output file.
C23_UnparseableNumber ==
    (Converted /\ ConvertedPair = <<"number", "sm">> /\ ~NumberText(cnv.args.input))
        => /\ out.st = "Err"
           /\ out.err = "Failed to parse number"
           /\ out.val = <<>>
           /\ ~cnv.sm_written /\ ~cnv.out_written
           /\ origin = "none" /\ sm = <<>>
           /\ outfile = NoFile

C23_Witness ==
    /\ Converted
    /\ cnv.args.from = "number" /\ cnv.args.to = "sm"
    /\ cnv.args.input = <<45, 49>>
    /\ out.st = "Err"
    /\ origin = "none"

\* the value of a text of decimal digits
RECURSIVE DecimalValue(_)
DecimalValue(text) ==
    IF text = <<>> THEN 0
    ELSE 10 * DecimalValue(SubSeq(text, 1, Len(text) - 1)) + (text[Len(text)] - 48)

\* the decimal digits of a number, without leading zeros
RECURSIVE Decimal(_)
Decimal(n) ==
    IF n < 10 THEN <<48 + n>> ELSE Append(Decimal(n \div 10), 48 + (n % 10))

RECURSIVE Canonical(_)
Canonical(text) ==
    IF Len(text) > 1 /\ Head(text) = 48 THEN Canonical(Tail(text)) ELSE text

\* C26: decoding as a number the stream that number -> sm wrote for a text
\* of decimal digits gives the digits of the number without leading zeros.
C26_NumberRoundTrip ==
    (/\ Converted
     /\ ConvertedPair = <<"sm", "number">>
     /\ origin = "convert_number"
     /\ AllDigits(input))
        => /\ out.st = "Ok"
           /\ out.val = Canonical(input)
           /\ cnv.args.output # "" => outfile = File(Canonical(input))

C26_Witness ==
    /\ Converted
    /\ ConvertedPair = <<"sm", "number">>
    /\ origin = "convert_number"
    /\ input = <<48, 57, 57>>
    /\ out.val = <<57, 57>>
    /\ outfile = File(<<57, 57>>)

(***************************************************************************)
(* Properties of compile_pipeline.                                         *)
(***************************************************************************)
\* C28: of two runs of the pipeline on different sources and outputs, a run
\* that has ended has not failed, and a run that has written its output
\* file has written the glyph stream of the bytecode of its own source.
C28_PipelineIsolation ==
    \A r \in Runs :
        /\ pipe[r].pc # "failed"
        /\ pipe[r].pc \in {"converted", "done"}
              => outs[r] = File(GlyphStreamOf(pipe[r].source))

(***************************************************************************)
(* Properties of interleaved invocations.                                  *)
(***************************************************************************)
\* what the function of an invocation returns for its argument when it runs
\* alone
Alone(i) ==
    CASE i.kind = "encode_universal" -> Ok(encode_universal_to_tetragrams(i.arg))
      [] i.kind = "decode_universal" -> decode_tetragrams_to_bytes(i.arg)
      [] i.kind = "encode_direct" -> Ok(encode_text_to_tetragrams_direct(i.arg))
      [] i.kind = "decode_direct" -> decode_tetragrams_to_text_direct(i.arg)
      [] i.kind = "estimate" -> estimate_contract(i.arg, i.flag)

====
